---- MODULE Spec2Model ----
(***************************************************************************)
(* A model of the factordb client library: the decoding of the service's   *)
(* JSON response into Number / Factor / NumberStatus (utils.rs, number.rs, *)
(* factor.rs, lib.rs), the Factor iterators, the derived views of Number   *)
(* and the client's get call.                                              *)
(*                                                                         *)
(* Text is a sequence of one-character strings.  A JSON value is a record  *)
(* [t, n, s, a]: t is the kind of the value, n the value of a number       *)
(* literal (or 0/1 for false/true), s the text of a string (or the key of  *)
(* an object member), a the elements of an array (or the members of an     *)
(* object, or the one value of a member).                                  *)
(***************************************************************************)
EXTENDS Integers, Sequences, FiniteSets, TLC

VARIABLES pc, input, result, response, number, view, factor, iters

vars == <<pc, input, result, response, number, view, factor, iters>>

(***************************************************************************)
(* Bounds of the model.                                                    *)
(***************************************************************************)
\* Width of the u64 / i64 of the build, scaled down (64 in the build): the
\* unsigned range is 0 .. 2^WordBits - 1, the signed one
\* -2^(WordBits-1) .. 2^(WordBits-1) - 1.
WordBits == 3
\* Width of one u32 digit of a serialized big integer, scaled down (32 in the
\* build).
DigitBits == 2
\* Longest text enumerated over Alphabet.
MaxStrLen == 3
\* Most entries of a factor list in a response.
MaxFactors == 2
\* Largest exponent of a Factor that is iterated.
MaxExp == 3
\* Most iterators alive on one Factor.
MaxIters == 2

RECURSIVE Pow2(_)
Pow2(k) == IF k = 0 THEN 1 ELSE 2 * Pow2(k - 1)

U64Max == Pow2(WordBits) - 1
I64Min == 0 - Pow2(WordBits - 1)
I64Max == Pow2(WordBits - 1) - 1

\* The integer literals a response may hold: the machine range and two more
\* on each side.
Literals == (I64Min - 2) .. (U64Max + 2)

(***************************************************************************)
(* Text and big integers.                                                  *)
(***************************************************************************)
Digits == <<"0", "1", "2", "3", "4", "5", "6", "7", "8", "9">>

IsDigit(c) == \E i \in 1..10 : Digits[i] = c

DigitVal(c) == (CHOOSE i \in 1..10 : Digits[i] = c) - 1

starts_with(s, c) == Len(s) > 0 /\ s[1] = c

\* Results of fallible operations.  unexp is the `Unexpected` payload of a
\* serde error.
Ok(v) == [ok |-> TRUE, v |-> v, err |-> "", unexp |-> <<>>]
Err(e) == [ok |-> FALSE, v |-> 0, err |-> e, unexp |-> <<>>]
ErrWith(e, u) == [ok |-> FALSE, v |-> 0, err |-> e, unexp |-> u]

\* The message of a ParseBigIntError (its Display), one line of text.
ParseErrorEmpty == <<"cannot parse integer from empty string">>
ParseErrorInvalid == <<"invalid digit found in string">>

\* The accumulation of decimal digits, most significant first.
RECURSIVE digits_value(_)
digits_value(s) ==
  IF s = <<>> THEN 0
  ELSE 10 * digits_value(SubSeq(s, 1, Len(s) - 1)) + DigitVal(s[Len(s)])

\* BigUint::from_str_radix(s, 10): one leading '+' is dropped unless another
\* '+' follows it, empty text is an error, every character must be a digit.
biguint_from_str(s) ==
  LET t == IF starts_with(s, "+") /\ ~starts_with(Tail(s), "+") THEN Tail(s) ELSE s
  IN  IF t = <<>> THEN ErrWith("parse", ParseErrorEmpty)
      ELSE IF \E i \in 1..Len(t) : ~IsDigit(t[i]) THEN ErrWith("parse", ParseErrorInvalid)
      ELSE Ok(digits_value(t))

\* BigInt::from_str(s): a leading '-' gives the sign and is dropped unless a
\* '+' follows it; the rest is read by BigUint.
bigint_from_str(s) ==
  LET minus == starts_with(s, "-")
      t == IF minus /\ ~starts_with(Tail(s), "+") THEN Tail(s) ELSE s
      bu == biguint_from_str(t)
  IN  IF ~bu.ok THEN bu ELSE Ok(IF minus THEN 0 - bu.v ELSE bu.v)

\* BigInt's Display (to_string): the decimal digits, '-' before a negative.
RECURSIVE biguint_to_string(_)
biguint_to_string(n) ==
  IF n < 10 THEN <<Digits[n + 1]>>
  ELSE biguint_to_string(n \div 10) \o <<Digits[(n % 10) + 1]>>

to_string(n) == IF n < 0 THEN <<"-">> \o biguint_to_string(0 - n) ELSE biguint_to_string(n)

(***************************************************************************)
(* JSON values.                                                            *)
(***************************************************************************)
JInt(n) == [t |-> "int", n |-> n, s |-> <<>>, a |-> <<>>]
JFloat == [t |-> "float", n |-> 0, s |-> <<>>, a |-> <<>>]
JStr(s) == [t |-> "str", n |-> 0, s |-> s, a |-> <<>>]
JBool(b) == [t |-> "bool", n |-> IF b THEN 1 ELSE 0, s |-> <<>>, a |-> <<>>]
JNull == [t |-> "null", n |-> 0, s |-> <<>>, a |-> <<>>]
JArr(a) == [t |-> "array", n |-> 0, s |-> <<>>, a |-> a]
JMember(k, v) == [t |-> "member", n |-> 0, s |-> k, a |-> <<v>>]
JObj(members) == [t |-> "object", n |-> 0, s |-> <<>>, a |-> members]
\* A body that is no JSON text at all.
Malformed == [t |-> "malformed", n |-> 0, s |-> <<>>, a |-> <<>>]

\* serde_json's parse_integer: an integer literal is read as u64 when it is
\* not negative and fits, as i64 when it is negative and fits, and as f64
\* otherwise.
parse_integer(n) ==
  IF n >= 0 THEN (IF n <= U64Max THEN "u64" ELSE "f64")
  ELSE (IF n >= I64Min THEN "i64" ELSE "f64")

(***************************************************************************)
(* utils.rs: DeserializeToBigIntVisitor and the three field decoders.      *)
(***************************************************************************)
\* The methods the visitor defines.
visit_i64(v) == Ok(v)

visit_u64(v) == Ok(v)

\* The error carries Unexpected::Str(&e.to_string()): the text of the parse
\* error.
visit_str(v) ==
  LET r == bigint_from_str(v)
  IN  IF r.ok THEN r ELSE ErrWith("invalid_value", r.unexp)

\* Every other visit_* method is serde's default: an invalid-type error that
\* names the kind of value met.
visit_default(kind) == ErrWith("invalid_type", <<kind>>)

\* ParserNumber::visit: the visitor method that a number literal reaches.
visit_number(n) ==
  CASE parse_integer(n) = "u64" -> visit_u64(n)
    [] parse_integer(n) = "i64" -> visit_i64(n)
    [] OTHER -> visit_default("float")

\* serde_json's deserialize_any with the visitor: the method is chosen by the
\* kind of the value.
json_deserialize_any(v) ==
  CASE v.t = "int" -> visit_number(v.n)
    [] v.t = "str" -> visit_str(v.s)
    [] v.t = "malformed" -> Err("syntax")
    [] OTHER -> visit_default(v.t)

\* serde_json's deserialize_str with the visitor: only a string reaches the
\* visitor, every other value is an invalid-type error.
json_deserialize_str(v) ==
  CASE v.t = "str" -> visit_str(v.s)
    [] v.t = "malformed" -> Err("syntax")
    [] OTHER -> visit_default(v.t)

\* serde_json's deserialize_u64 with the visitor: a number literal is parsed
\* and handed to the visitor method of its parsed kind (u64, i64 or f64); the
\* visitor, not the deserializer, decides which kinds are accepted.
json_deserialize_u64(v) ==
  CASE v.t = "int" -> visit_number(v.n)
    [] v.t = "malformed" -> Err("syntax")
    [] OTHER -> visit_default(v.t)

\* The id decoded with deserialize_str: an integer is refused.
deserialize_id_str_only(v) == json_deserialize_str(v)

deserialize_id(v) == json_deserialize_any(v)

\* The base decoded with deserialize_any: an integer is accepted too.
deserialize_string_to_bigint_any(v) == json_deserialize_any(v)

deserialize_string_to_bigint(v) == json_deserialize_str(v)

deserialize_u64_to_bigint(v) == json_deserialize_u64(v)

(***************************************************************************)
(* NumberStatus: the wire tags of the derived Deserialize / Serialize.     *)
(***************************************************************************)
\* Each variant with its serialized name (serde rename, or the variant's own
\* name) and its aliases.
NumberStatus ==
  << [variant |-> "NoFactorsKnown", rename |-> <<"C">>, alias |-> {}],
     [variant |-> "FactorsKnown", rename |-> <<"C", "F">>, alias |-> {}],
     [variant |-> "FullyFactored", rename |-> <<"F", "F">>, alias |-> {}],
     [variant |-> "DefinitelyPrime", rename |-> <<"P">>, alias |-> {}],
     [variant |-> "ProbablyPrime", rename |-> <<"P", "r", "p">>, alias |-> {<<"P", "R", "P">>}],
     [variant |-> "Unknown", rename |-> <<"U">>, alias |-> {}],
     [variant |-> "Unit", rename |-> <<"U", "n", "i", "t">>, alias |-> {}],
     [variant |-> "Zero", rename |-> <<"Z", "e", "r", "o">>, alias |-> {}],
     [variant |-> "NotInDatabase", rename |-> <<"N">>, alias |-> {}] >>

Variants == {NumberStatus[i].variant : i \in 1..Len(NumberStatus)}

\* The derived field visitor: the variant whose name or alias is the tag.
variant_of_tag(tag) ==
  LET hits == {i \in 1..Len(NumberStatus) :
                 tag = NumberStatus[i].rename \/ tag \in NumberStatus[i].alias}
  IN  IF hits = {} THEN ErrWith("unknown_variant", tag)
      ELSE Ok(NumberStatus[CHOOSE i \in hits : TRUE].variant)

\* A tag lookup that falls back to Unknown for a tag it does not know.
deserialize_status_defaulting(v) ==
  IF v.t = "str"
  THEN (IF variant_of_tag(v.s).ok THEN variant_of_tag(v.s) ELSE Ok("Unknown"))
  ELSE visit_default(v.t)

\* A tag lookup that ignores the case of the letters p, r, p.
deserialize_status_nocase(v) ==
  IF v.t = "str" /\ Len(v.s) = 3 /\ v.s[1] \in {"P", "p"} /\ v.s[2] \in {"R", "r"}
     /\ v.s[3] \in {"P", "p"}
  THEN Ok("ProbablyPrime")
  ELSE IF v.t = "str" THEN variant_of_tag(v.s) ELSE visit_default(v.t)

\* serde_json's deserialize_enum for a unit-only enum: a string is the tag;
\* an object must hold one member, the tag with the value null.
deserialize_status(v) ==
  CASE v.t = "str" -> variant_of_tag(v.s)
    [] v.t = "object" ->
         IF Len(v.a) = 0 THEN Err("syntax")
         ELSE LET r == variant_of_tag(v.a[1].s)
              IN  IF ~r.ok THEN r
                  ELSE IF v.a[1].a[1].t # "null" THEN visit_default(v.a[1].a[1].t)
                  ELSE IF Len(v.a) > 1 THEN Err("syntax")
                  ELSE r
    [] v.t = "malformed" -> Err("syntax")
    [] OTHER -> visit_default(v.t)

\* The derived Serialize: a unit variant is its serialized name as a string.
serialize_status(variant) ==
  JStr(NumberStatus[CHOOSE i \in 1..Len(NumberStatus) : NumberStatus[i].variant = variant].rename)

(***************************************************************************)
(* factor.rs / lib.rs: Factor, its decoding and its iterators.             *)
(***************************************************************************)
Factor(b, e) == [base |-> b, exponent |-> e]

\* The derived Deserialize of the tuple struct: an array whose first element
\* goes through deserialize_string_to_bigint and whose second goes through
\* deserialize_u64_to_bigint; a missing or an extra element is an error.
deserialize_factor(v) ==
  IF v.t = "malformed" THEN Err("syntax")
  ELSE IF v.t # "array" THEN visit_default(v.t)
  ELSE IF Len(v.a) = 0 THEN Err("invalid_length")
  ELSE LET b == deserialize_string_to_bigint(v.a[1])
       IN  IF ~b.ok THEN b
           ELSE IF Len(v.a) = 1 THEN Err("invalid_length")
           ELSE LET e == deserialize_u64_to_bigint(v.a[2])
                IN  IF ~e.ok THEN e
                    ELSE IF Len(v.a) > 2 THEN Err("trailing")
                    ELSE Ok(Factor(b.v, e.v))

\* Vec<Factor>: an array whose elements are decoded in order; the first
\* element that fails is the error of the whole.
prepend(f, rest) ==
  IF ~f.ok THEN f ELSE IF ~rest.ok THEN rest ELSE Ok(<<f.v>> \o rest.v)

RECURSIVE deserialize_elements(_)
deserialize_elements(a) ==
  IF a = <<>> THEN Ok(<<>>)
  ELSE prepend(deserialize_factor(Head(a)), deserialize_elements(Tail(a)))

deserialize_factors(v) ==
  IF v.t = "malformed" THEN Err("syntax")
  ELSE IF v.t # "array" THEN visit_default(v.t)
  ELSE deserialize_elements(v.a)

\* Factor::iter: the iterator borrows the base and owns a copy of the
\* exponent.
iter(f) == [kind |-> "Iter", base |-> f.base, remaining_exp |-> f.exponent]

\* IntoIterator for Factor: the iterator owns base and exponent.
into_iter(f) == [kind |-> "IntoIter", base |-> f.base, remaining_exp |-> f.exponent]

\* A next that stops one item early.
next_short(it) ==
  IF it.remaining_exp > 1
  THEN [it |-> [it EXCEPT !.remaining_exp = @ - 1], item |-> <<it.base>>]
  ELSE [it |-> it, item |-> <<>>]

\* Iter::next / IntoIter::next: the iterator after the call and the item
\* returned (<<>> is None).
next(it) ==
  IF it.remaining_exp > 0
  THEN [it |-> [it EXCEPT !.remaining_exp = @ - 1], item |-> <<it.base>>]
  ELSE [it |-> it, item |-> <<>>]

\* Iterator::collect: next until None.
RECURSIVE collect(_)
collect(it) ==
  LET r == next(it)
  IN  IF r.item = <<>> THEN <<>> ELSE r.item \o collect(r.it)

(***************************************************************************)
(* number.rs / lib.rs: Number, its decoding and its derived views.         *)
(***************************************************************************)
KeyId == <<"i", "d">>
KeyStatus == <<"s", "t", "a", "t", "u", "s">>
KeyFactors == <<"f", "a", "c", "t", "o", "r", "s">>

\* The derived visit_map: the members in order; a field met twice is an
\* error, a field that fails to decode is an error, an unknown key is
\* skipped; at the end every field must have been met.  acc holds each field
\* as <<>> (not met) or <<value>>.
RECURSIVE number_visit_map(_, _)
number_visit_map(ms, acc) ==
  IF ms = <<>>
  THEN IF acc.id = <<>> THEN ErrWith("missing_field", KeyId)
       ELSE IF acc.status = <<>> THEN ErrWith("missing_field", KeyStatus)
       ELSE IF acc.factors = <<>> THEN ErrWith("missing_field", KeyFactors)
       ELSE Ok([id |-> acc.id[1], status |-> acc.status[1], factors |-> acc.factors[1]])
  ELSE LET m == Head(ms)
           val == m.a[1]
       IN  IF m.s = KeyId
           THEN IF acc.id # <<>> THEN ErrWith("duplicate_field", KeyId)
                ELSE LET r == deserialize_id(val)
                     IN  IF ~r.ok THEN r
                         ELSE number_visit_map(Tail(ms), [acc EXCEPT !.id = <<r.v>>])
           ELSE IF m.s = KeyStatus
           THEN IF acc.status # <<>> THEN ErrWith("duplicate_field", KeyStatus)
                ELSE LET r == deserialize_status(val)
                     IN  IF ~r.ok THEN r
                         ELSE number_visit_map(Tail(ms), [acc EXCEPT !.status = <<r.v>>])
           ELSE IF m.s = KeyFactors
           THEN IF acc.factors # <<>> THEN ErrWith("duplicate_field", KeyFactors)
                ELSE LET r == deserialize_factors(val)
                     IN  IF ~r.ok THEN r
                         ELSE number_visit_map(Tail(ms), [acc EXCEPT !.factors = <<r.v>>])
           ELSE IF val.t = "malformed" THEN Err("syntax")
           ELSE number_visit_map(Tail(ms), acc)

\* The derived visit_seq: id, status and factors in this order.
number_visit_seq(a) ==
  IF Len(a) = 0 THEN Err("invalid_length")
  ELSE LET i == deserialize_id(a[1])
       IN  IF ~i.ok THEN i
           ELSE IF Len(a) = 1 THEN Err("invalid_length")
           ELSE LET s == deserialize_status(a[2])
                IN  IF ~s.ok THEN s
                    ELSE IF Len(a) = 2 THEN Err("invalid_length")
                    ELSE LET f == deserialize_factors(a[3])
                         IN  IF ~f.ok THEN f
                             ELSE IF Len(a) > 3 THEN Err("trailing")
                             ELSE Ok([id |-> i.v, status |-> s.v, factors |-> f.v])

\* The derived Deserialize of Number, as serde_json runs it on a body.
deserialize_number(v) ==
  CASE v.t = "malformed" -> Err("syntax")
    [] v.t = "object" -> number_visit_map(v.a, [id |-> <<>>, status |-> <<>>, factors |-> <<>>])
    [] v.t = "array" -> number_visit_seq(v.a)
    [] OTHER -> visit_default(v.t)

\* [T]::sort_unstable on integers: ascending order.
RECURSIVE insert_sorted(_, _)
insert_sorted(x, s) ==
  IF s = <<>> THEN <<x>>
  ELSE IF x <= Head(s) THEN <<x>> \o s
  ELSE <<Head(s)>> \o insert_sorted(x, Tail(s))

RECURSIVE sort_unstable(_)
sort_unstable(s) == IF s = <<>> THEN <<>> ELSE insert_sorted(Head(s), sort_unstable(Tail(s)))

\* lib.rs Number::factor_list: for each factor, the base pushed while the
\* counter e, from 0, is below the exponent.
RECURSIVE factor_list_push(_, _)
factor_list_push(f, e) ==
  IF e < f.exponent THEN <<f.base>> \o factor_list_push(f, e + 1) ELSE <<>>

RECURSIVE factor_list_of(_)
factor_list_of(fs) ==
  IF fs = <<>> THEN <<>> ELSE factor_list_push(Head(fs), 0) \o factor_list_of(Tail(fs))

factor_list(num) == factor_list_of(num.factors)

\* lib.rs Number::unique_factors: the bases inserted into a HashSet.
unique_factors_set(num) == {num.factors[i].base : i \in 1..Len(num.factors)}

\* number.rs Number::unique_factors: the bases collected into a Vec.
unique_factors(num) == [i \in 1..Len(num.factors) |-> num.factors[i].base]

\* number.rs Number::into_unique_factors: the bases collected, then sorted.
into_unique_factors(num) == sort_unstable([i \in 1..Len(num.factors) |-> num.factors[i].base])

\* Iterator::flatten over the factors' into_iter.
RECURSIVE flatten(_)
flatten(fs) ==
  IF fs = <<>> THEN <<>> ELSE collect(into_iter(Head(fs))) \o flatten(Tail(fs))

\* An into_factors_flattened without the sort: the order of the factor list.
into_factors_flattened_unsorted(num) == flatten(num.factors)

\* number.rs Number::into_factors_flattened: flattened, then sorted.
into_factors_flattened(num) == sort_unstable(flatten(num.factors))

\* An is_prime that leaves out the probable primes.
is_prime_definite_only(num) == num.status = "DefinitelyPrime"

is_prime(num) == num.status = "DefinitelyPrime" \/ num.status = "ProbablyPrime"

is_definitely_prime(num) == num.status = "DefinitelyPrime"

(***************************************************************************)
(* The derived Serialize of Number, Factor and NumberStatus; a BigInt      *)
(* field is written by num-bigint's Serialize.                             *)
(***************************************************************************)
DigitBase == Pow2(DigitBits)

\* BigUint: the sequence of its digits, least significant first; zero has
\* no digit.
RECURSIVE biguint_digits(_)
biguint_digits(n) ==
  IF n = 0 THEN <<>> ELSE <<JInt(n % DigitBase)>> \o biguint_digits(n \div DigitBase)

\* BigInt: the pair of its sign (-1, 0 or 1) and its magnitude.
serialize_bigint(n) ==
  JArr(<< JInt(IF n < 0 THEN 0 - 1 ELSE IF n = 0 THEN 0 ELSE 1),
          JArr(biguint_digits(IF n < 0 THEN 0 - n ELSE n)) >>)

serialize_factor(f) == JArr(<<serialize_bigint(f.base), serialize_bigint(f.exponent)>>)

serialize_number(num) ==
  JObj(<< JMember(KeyId, serialize_bigint(num.id)),
          JMember(KeyStatus, serialize_status(num.status)),
          JMember(KeyFactors,
                  JArr([i \in 1..Len(num.factors) |-> serialize_factor(num.factors[i])])) >>)

(***************************************************************************)
(* lib.rs: FactorDbClient::get / FactorDbBlockingClient::get.              *)
(***************************************************************************)
NoResponse == [kind |-> "none", success |-> FALSE, body |-> JNull]
TransportError == [kind |-> "error", success |-> FALSE, body |-> JNull]
HttpResponse(success, body) == [kind |-> "http", success |-> success, body |-> body]

NoResult == [op |-> "none", r |-> Err("")]
NoNumber == [id |-> 0, status |-> "Unknown", factors |-> <<>>]
NoView == [op |-> "none", val |-> 0]

\* get after fetch_response: a transport error is returned through `?`; a
\* status that is no success is Err(InvalidNumber); otherwise the body is
\* decoded and the result unwrapped by expect("Invalid JSON response"),
\* which panics when the body does not decode.
get(resp) ==
  IF resp.kind = "error" THEN [outcome |-> "returned", r |-> Err("RequestError")]
  ELSE IF ~resp.success THEN [outcome |-> "returned", r |-> Err("InvalidNumber")]
  ELSE LET d == deserialize_number(resp.body)
       IN  IF d.ok THEN [outcome |-> "returned", r |-> d]
           ELSE [outcome |-> "panicked", r |-> Err("Invalid JSON response")]

(***************************************************************************)
(* The values a response may hold.                                         *)
(***************************************************************************)
Alphabet == {"0", "1", "9", "-", "+", "a"}

RECURSIVE TextsOfLen(_)
TextsOfLen(k) ==
  IF k = 0 THEN {<<>>}
  ELSE {<<c>> \o s : c \in Alphabet, s \in TextsOfLen(k - 1)}

\* Every spelling of p-r-p in upper and lower case.
PrpSpellings == {<<a, b, c>> : a \in {"P", "p"}, b \in {"R", "r"}, c \in {"P", "p"}}

Tags ==
  {NumberStatus[i].rename : i \in 1..Len(NumberStatus)}
    \cup PrpSpellings
    \cup {<<"X", "X">>, <<"c">>, <<"F">>, <<"U", "N", "I", "T">>, <<"z", "e", "r", "o">>}

Texts ==
  UNION {TextsOfLen(k) : k \in 0..MaxStrLen} \cup {to_string(n) : n \in Literals} \cup Tags

FieldInputs ==
  {JInt(n) : n \in Literals}
    \cup {JStr(s) : s \in Texts}
    \cup {JFloat, JBool(TRUE), JBool(FALSE), JNull, JArr(<<>>), JArr(<<JInt(1)>>), JObj(<<>>)}
    \cup {JObj(<<JMember(tag, v)>>) : tag \in {<<"P">>, <<"X", "X">>}, v \in {JNull, JInt(1)}}

IdValues == {JInt(2), JInt(0 - 1), JStr(<<"2">>), JStr(<<"a">>), JFloat}

StatusValues == {JStr(<<"F", "F">>), JStr(<<"P">>), JStr(<<"P", "R", "P">>), JStr(<<"X", "X">>)}

PairValues ==
  {JArr(<<JStr(to_string(b)), JInt(e)>>) : b \in {2, 3}, e \in {0 - 1, 0, 1, 2}}
    \cup { JArr(<<JInt(3), JInt(1)>>), JArr(<<JStr(<<"2">>)>>),
           JArr(<<JStr(<<"2">>), JInt(1), JInt(1)>>) }

RECURSIVE PairLists(_)
PairLists(k) ==
  IF k = 0 THEN {<<>>}
  ELSE {<<p>> \o l : p \in PairValues, l \in PairLists(k - 1)}

FactorsValues == {JArr(l) : l \in UNION {PairLists(k) : k \in 0..MaxFactors}} \cup {JNull}

Document(i, s, f) == JObj(<<JMember(KeyId, i), JMember(KeyStatus, s), JMember(KeyFactors, f)>>)

\* A body for every serialized status name, with one id and one factor.
StatusDocuments ==
  {Document(JStr(<<"1", "9">>), JStr(NumberStatus[k].rename),
            JArr(<<JArr(<<JStr(<<"1", "9">>), JInt(1)>>)>>)) : k \in 1..Len(NumberStatus)}

Bodies ==
  {Document(i, s, f) : i \in IdValues, s \in StatusValues, f \in FactorsValues}
    \cup StatusDocuments
    \cup { Document(JInt(2), JStr(<<"F", "F">>),
                    JArr(<<JArr(<<JStr(<<"5">>), JInt(2)>>), JArr(<<JStr(<<"2">>), JInt(2)>>)>>)) }
    \cup { Malformed, JNull, JObj(<<>>),
           JObj(<<JMember(KeyId, JInt(2)), JMember(KeyStatus, JStr(<<"P">>))>>),
           JObj(<<JMember(KeyId, JInt(2)), JMember(KeyId, JInt(2))>>),
           JObj(<<JMember(<<"x">>, JInt(1)), JMember(KeyFactors, JArr(<<>>)),
                  JMember(KeyStatus, JStr(<<"U">>)), JMember(KeyId, JStr(<<"1", "9">>))>>),
           JArr(<<JInt(2), JStr(<<"P">>), JArr(<<>>)>>) }

Responses ==
  {TransportError}
    \cup {HttpResponse(TRUE, b) : b \in Bodies}
    \cup {HttpResponse(FALSE, b) : b \in {Malformed, JNull}}

(***************************************************************************)
(* The client: one get call and the caller's use of the Number returned.   *)
(***************************************************************************)
Init ==
  /\ pc = "idle"
  /\ response = NoResponse
  /\ result = NoResult
  /\ number = NoNumber
  /\ view = NoView
  /\ input = JNull
  /\ factor = Factor(0, 0)
  /\ iters = <<>>

\* fetch_response(number).await: the request is sent and an answer, or a
\* transport error, comes back.
FetchResponse ==
  /\ pc = "idle"
  /\ \E resp \in Responses : response' = resp
  /\ pc' = "fetched"
  /\ UNCHANGED <<input, result, number, view, factor, iters>>

\* The rest of get.
Get ==
  /\ pc = "fetched"
  /\ LET g == get(response)
     IN  /\ pc' = g.outcome
         /\ result' = [op |-> "get", r |-> g.r]
         /\ number' = IF g.r.ok THEN g.r.v ELSE number
  /\ UNCHANGED <<input, response, view, factor, iters>>

HasNumber == pc = "returned" /\ result.op = "get" /\ result.r.ok

View(op, val) ==
  /\ HasNumber
  /\ view' = [op |-> op, val |-> val]
  /\ UNCHANGED <<pc, input, result, response, number, factor, iters>>

FactorList == View("factor_list", factor_list(number))

UniqueFactorsSet == View("unique_factors_set", unique_factors_set(number))

UniqueFactors == View("unique_factors", unique_factors(number))

\* The into_ methods take self by value: the caller passes a clone and keeps
\* its Number.
IntoUniqueFactors == View("into_unique_factors", into_unique_factors(number))

IntoFactorsFlattened == View("into_factors_flattened", into_factors_flattened(number))

IsPrime == View("is_prime", is_prime(number))

IsDefinitelyPrime == View("is_definitely_prime", is_definitely_prime(number))

\* The Number written by its derived Serialize.
ToJson == View("to_json", serialize_number(number))

\* The text written by ToJson read back by the Number decoder.
FromJson ==
  /\ HasNumber
  /\ view.op = "to_json"
  /\ view' = [op |-> "from_json", val |-> deserialize_number(view.val)]
  /\ UNCHANGED <<pc, input, result, response, number, factor, iters>>

Next ==
  \/ FetchResponse
  \/ Get
  \/ FactorList
  \/ UniqueFactorsSet
  \/ UniqueFactors
  \/ IntoUniqueFactors
  \/ IntoFactorsFlattened
  \/ IsPrime
  \/ IsDefinitelyPrime
  \/ ToJson
  \/ FromJson

Spec == Init /\ [][Next]_vars

(***************************************************************************)
(* The field decoders on their own: a value is drawn and one of the        *)
(* decoders of utils.rs / NumberStatus is applied to it.                   *)
(***************************************************************************)
InitDecode ==
  /\ pc = "decode"
  /\ input \in FieldInputs
  /\ result = NoResult
  /\ view = NoView
  /\ response = NoResponse
  /\ number = NoNumber
  /\ factor = Factor(0, 0)
  /\ iters = <<>>

Decode(op, r) ==
  /\ pc = "decode"
  /\ result' = [op |-> op, r |-> r]
  /\ UNCHANGED <<pc, input, response, number, view, factor, iters>>

DecodeId == Decode("id", deserialize_id(input))

DecodeBase == Decode("base", deserialize_string_to_bigint(input))

DecodeExponent == Decode("exponent", deserialize_u64_to_bigint(input))

DecodeStatus == Decode("status", deserialize_status(input))

\* A variant is written by the derived Serialize; the text becomes the value
\* to decode and view remembers the variant.
EncodeStatus ==
  /\ pc = "decode"
  /\ \E variant \in Variants :
       /\ input' = serialize_status(variant)
       /\ view' = [op |-> "serialize_status", val |-> variant]
  /\ result' = NoResult
  /\ UNCHANGED <<pc, response, number, factor, iters>>

NextDecode ==
  \/ DecodeId
  \/ DecodeBase
  \/ DecodeExponent
  \/ DecodeStatus
  \/ EncodeStatus

SpecDecode == InitDecode /\ [][NextDecode]_vars

(***************************************************************************)
(* The iterators of one Factor: iter() and clone().into_iter() create      *)
(* iterators, next() advances one of them.  Each entry of iters holds the  *)
(* iterator, the items it has returned and whether it has returned None.   *)
(***************************************************************************)
InitIter ==
  /\ pc = "iterate"
  /\ factor \in {Factor(b, e) : b \in {2, 3}, e \in (0 - 1)..MaxExp}
  /\ iters = <<>>
  /\ input = JNull
  /\ result = NoResult
  /\ view = NoView
  /\ response = NoResponse
  /\ number = NoNumber

CallIter ==
  /\ pc = "iterate"
  /\ Len(iters) < MaxIters
  /\ iters' = Append(iters, [it |-> iter(factor), yielded |-> <<>>, done |-> FALSE])
  /\ UNCHANGED <<pc, input, result, response, number, view, factor>>

CallIntoIter ==
  /\ pc = "iterate"
  /\ Len(iters) < MaxIters
  /\ iters' = Append(iters, [it |-> into_iter(factor), yielded |-> <<>>, done |-> FALSE])
  /\ UNCHANGED <<pc, input, result, response, number, view, factor>>

CallNext ==
  /\ pc = "iterate"
  /\ \E i \in 1..Len(iters) :
       LET r == next(iters[i].it)
       IN  iters' = [iters EXCEPT ![i] = [it |-> r.it,
                                         yielded |-> @.yielded \o r.item,
                                         done |-> @.done \/ r.item = <<>>]]
  /\ UNCHANGED <<pc, input, result, response, number, view, factor>>

NextIter ==
  \/ CallIter
  \/ CallIntoIter
  \/ CallNext

SpecIter == InitIter /\ [][NextIter]_vars

(***************************************************************************)
(* Properties.                                                             *)
(***************************************************************************)
\* A base-10 integer literal: an optional sign, then one digit or more.
IsDecimalLiteral(s) ==
  LET body == IF starts_with(s, "+") \/ starts_with(s, "-") THEN Tail(s) ELSE s
  IN  body # <<>> /\ \A i \in 1..Len(body) : IsDigit(body[i])

RECURSIVE StripZeros(_)
StripZeros(s) == IF Len(s) > 1 /\ s[1] = "0" THEN StripZeros(Tail(s)) ELSE s

\* The literal without a '+', without leading zeros and without a sign on
\* zero.
Canonical(s) ==
  LET body == IF starts_with(s, "+") \/ starts_with(s, "-") THEN Tail(s) ELSE s
      stripped == StripZeros(body)
  IN  IF stripped = <<"0">> THEN stripped
      ELSE IF starts_with(s, "-") THEN <<"-">> \o stripped
      ELSE stripped

\* C1: get never panics on a body from the network: a response with a
\* success status whose body the Number decoder rejects makes get return an
\* Err value to the caller.
C1_GetReturnsErrOnBadBody ==
  (result.op = "get" /\ response.kind = "http" /\ response.success
     /\ ~deserialize_number(response.body).ok)
    => (pc = "returned" /\ ~result.r.ok)

C3_ExponentDecode ==
  result.op = "exponent" =>
    /\ result.r.ok => (input.t = "int" /\ input.n >= 0 /\ result.r.v = input.n)
    /\ (input.t # "int" \/ input.n < 0) => ~result.r.ok

\* C4: for a Factor with exponent e >= 0, every iterator made by iter() or
\* by into_iter() on a clone returns the base exactly e times and then None,
\* whatever other iterators exist or how far they were advanced; iterating
\* leaves the Factor as it is.
C4_IterYieldsExponentTimes ==
  /\ [](factor.exponent >= 0 =>
          \A i \in 1..Len(iters) :
            /\ \A k \in 1..Len(iters[i].yielded) : iters[i].yielded[k] = factor.base
            /\ Len(iters[i].yielded) <= factor.exponent
            /\ iters[i].done => Len(iters[i].yielded) = factor.exponent
            /\ Len(iters[i].yielded) < factor.exponent
                 => next(iters[i].it).item = <<factor.base>>
            /\ Len(iters[i].yielded) = factor.exponent => next(iters[i].it).item = <<>>)
  /\ [][factor' = factor]_vars

\* An iterator of a Factor with the largest exponent has returned every item
\* and None while a second one, made by into_iter, is partly consumed.
C4_Witness ==
  /\ factor.exponent = MaxExp
  /\ \E i, j \in 1..Len(iters) :
       /\ i # j
       /\ iters[i].it.kind = "Iter" /\ iters[i].done
       /\ Len(iters[i].yielded) = MaxExp
       /\ iters[j].it.kind = "IntoIter" /\ ~iters[j].done
       /\ Len(iters[j].yielded) > 0 /\ Len(iters[j].yielded) < MaxExp

RECURSIVE SumExponents(_)
SumExponents(fs) == IF fs = <<>> THEN 0 ELSE Head(fs).exponent + SumExponents(Tail(fs))

Count(b, s) == Cardinality({k \in 1..Len(s) : s[k] = b})

Bases(num) == {num.factors[i].base : i \in 1..Len(num.factors)}

EntriesOf(b, fs) == SelectSeq(fs, LAMBDA f : f.base = b)

\* C5: for a Number that decoding produced, factor_list and
\* into_factors_flattened hold each base as many times as the exponents of
\* its entries say, so their length is the sum of the exponents.
C5_FlattenedLengthIsSumOfExponents ==
  view.op \in {"factor_list", "into_factors_flattened"} =>
    /\ Len(view.val) = SumExponents(number.factors)
    /\ \A b \in Bases(number) : Count(b, view.val) = SumExponents(EntriesOf(b, number.factors))

\* C6: unique_factors (both), and into_unique_factors, hold each distinct
\* base of the factor list exactly once and nothing else, also when a base
\* occurs in more than one entry.
C6_UniqueFactorsHoldEachBaseOnce ==
  /\ view.op = "unique_factors_set" => view.val = Bases(number)
  /\ view.op \in {"unique_factors", "into_unique_factors"} =>
       /\ {view.val[k] : k \in 1..Len(view.val)} = Bases(number)
       /\ \A b \in Bases(number) : Count(b, view.val) = 1

\* C7: a Number written by its derived Serialize and read back by the
\* Number decoder is decoded, and equals the Number written.
C7_SerializeThenDeserialize ==
  view.op = "from_json" => (view.val.ok /\ view.val.v = number)

\* The wire tags and the variant of each.
WireTags ==
  { <<<<"C">>, "NoFactorsKnown">>, <<<<"C", "F">>, "FactorsKnown">>,
    <<<<"F", "F">>, "FullyFactored">>, <<<<"P">>, "DefinitelyPrime">>,
    <<<<"P", "r", "p">>, "ProbablyPrime">>, <<<<"P", "R", "P">>, "ProbablyPrime">>,
    <<<<"U">>, "Unknown">>, <<<<"U", "n", "i", "t">>, "Unit">>,
    <<<<"Z", "e", "r", "o">>, "Zero">>, <<<<"N">>, "NotInDatabase">> }

\* C8: a status tag of the accepted set decodes to its one variant, "Prp"
\* and "PRP" both to ProbablyPrime; any other tag fails to decode; a variant
\* that was encoded decodes to itself.
C8_StatusDecode ==
  result.op = "status" =>
    /\ input.t = "str" =>
         /\ \A p \in WireTags : p[1] = input.s => (result.r.ok /\ result.r.v = p[2])
         /\ (\A p \in WireTags : p[1] # input.s)
              => (~result.r.ok /\ result.r.err = "unknown_variant")
    /\ view.op = "serialize_status" => (result.r.ok /\ result.r.v = view.val)
    /\ input.t \notin {"str", "object"} => ~result.r.ok

\* The tag "XX" has been refused.
C8_Witness ==
  result.op = "status" /\ input = JStr(<<"X", "X">>) /\ ~result.r.ok

\* C9 as stated: every upper / lower case spelling of p-r-p decodes to
\* ProbablyPrime.
C9_PrpAnyCase ==
  (result.op = "status" /\ input.t = "str" /\ input.s \in PrpSpellings)
    => (result.r.ok /\ result.r.v = "ProbablyPrime")

\* C9 amended: of the spellings of p-r-p, exactly "Prp" and "PRP" decode, to
\* ProbablyPrime; every other one fails to decode as an unknown variant.
C9_PrpTwoSpellings ==
  (result.op = "status" /\ input.t = "str" /\ input.s \in PrpSpellings)
    => IF input.s \in {<<"P", "r", "p">>, <<"P", "R", "P">>}
       THEN result.r.ok /\ result.r.v = "ProbablyPrime"
       ELSE ~result.r.ok /\ result.r.err = "unknown_variant"

\* The tag "prp" has been refused.
C9_Witness ==
  result.op = "status" /\ input = JStr(<<"p", "r", "p">>) /\ ~result.r.ok

C11_PrimePredicates ==
  /\ view.op = "is_prime"
       => (view.val <=> number.status \in {"DefinitelyPrime", "ProbablyPrime"})
  /\ view.op = "is_definitely_prime" => (view.val <=> number.status = "DefinitelyPrime")
  /\ HasNumber =>
       \A s \in Variants :
         LET num == [number EXCEPT !.status = s]
         IN  /\ is_prime(num) <=> s \in {"DefinitelyPrime", "ProbablyPrime"}
             /\ is_definitely_prime(num) <=> s = "DefinitelyPrime"
             /\ is_definitely_prime(num) => is_prime(num)

\* is_prime has answered true for a Number whose status is ProbablyPrime.
C11_Witness ==
  view.op = "is_prime" /\ number.status = "ProbablyPrime" /\ view.val = TRUE

\* The items a Factor expands to: its exponent, none when that is not
\* positive.
Expansion(f) == IF f.exponent > 0 THEN f.exponent ELSE 0

RECURSIVE SumExpansions(_)
SumExpansions(fs) == IF fs = <<>> THEN 0 ELSE Expansion(Head(fs)) + SumExpansions(Tail(fs))

\* C12: into_factors_flattened returns its elements in ascending order
\* whatever the order of the factor list, and holds the items of every
\* Factor's expansion, no more and no fewer: each base as often as its
\* entries expand it.
C12_FlattenedIsSortedPermutation ==
  view.op = "into_factors_flattened" =>
    /\ \A k \in 1..(Len(view.val) - 1) : view.val[k] <= view.val[k + 1]
    /\ Len(view.val) = SumExpansions(number.factors)
    /\ \A b \in Bases(number) :
         Count(b, view.val) = SumExpansions(EntriesOf(b, number.factors))
    /\ \A k \in 1..Len(view.val) : view.val[k] \in Bases(number)

\* The factor list [["5",2],["2",2]] has been flattened to [2,2,5,5].
C12_Witness ==
  /\ view.op = "into_factors_flattened"
  /\ number.factors = <<Factor(5, 2), Factor(2, 2)>>
  /\ view.val = <<2, 2, 5, 5>>


\* C13: when an id or a base that is a string is no base-10 integer, the
\* decode error carries, as its unexpected value, the string received.
C13_ErrorCarriesRawString ==
  (result.op \in {"id", "base"} /\ input.t = "str" /\ ~result.r.ok)
    => (result.r.err = "invalid_value" /\ result.r.unexp = input.s)

====
